---- MODULE Spec2Model ----
(***************************************************************************)
(* Image specification format of code/image-builds/protoype-protocol.yaml: *)
(* the header, the directory blocks under selected_notebooks, the defaults *)
(* the file documents, and the resolution of the blocks into the effective *)
(* notebook set.                                                           *)
(*                                                                         *)
(* A path is the sequence of its segments: "content/notebooks/" is         *)
(* <<"content", "notebooks">>, "." is <<".">>, "" is <<>>.  A field that a *)
(* header or block omits is absent from the record's DOMAIN.               *)
(***************************************************************************)
EXTENDS Naturals, Sequences, FiniteSets, TLC

VARIABLES header, doc, filled, chosen, included, excluded, effective, pc,
          requirements, conda,
          cell, names, status, tab, FFIs, loop, target_mask, background_mask,
          at, uris, c_uri, opened, hdulist, sci, limits, shown, raised

(* The planned outputs of the build. *)
outputs == <<requirements, conda>>

(* The image specification and its resolution. *)
image == <<header, doc, filled, chosen, included, excluded, effective, pc, outputs>>

(* The kernel of the transient notebook: the next code cell, the names     *)
(* bound, how the run stands, the two tables and the rows the search loop  *)
(* has processed.                                                          *)
masks == <<target_mask, background_mask>>

transient == <<cell, names, status, tab, FFIs, loop, masks>>

(* The kernel of the data-access notebook: the last statement run, the     *)
(* list get_cloud_uris returned, the names c_uri, hdulist, sci and the     *)
(* percentile limits, the argument fits.open received, the image shown and *)
(* the exception that stopped the run.                                     *)
access == <<at, uris, c_uri, opened, hdulist, sci, limits, shown, raised>>

vars == <<image, transient, access>>

(* Bounds of the model: blocks per document, and declared items (fields   *)
(* and list entries) per document.                                         *)
MaxBlocks == 2
MaxDeclared == 4

(* Bounds of the model: rows of the transient table and of the FFI table. *)
MaxRows == 2
MaxFFIs == 2

(* Bounds of the model: URIs in the list get_cloud_uris returns, and HDUs  *)
(* of the file behind a URI.                                               *)
MaxUris == 2
MaxHDUs == 3

Range(s) == {s[i] : i \in 1..Len(s)}

(***************************************************************************)
(* The document shipped in the repository.                                 *)
(***************************************************************************)
ShippedHeaderExpired ==
    [image_name |-> "TIKE 2025.05",
     description |-> "A block of text can be inserted here if desired,  optional.",
     valid_on |-> <<2025, 5, 12>>,
     expires_on |-> <<2025, 1, 31>>,
     nb_repo |-> "https://github.com/spacetelescope/tike_content",
     root_nb_directory |-> <<"content", "notebooks">>,
     python_version |-> "3.12.9"]

ShippedHeader ==
    [image_name |-> "TIKE 2025.05",
     description |-> "A block of text can be inserted here if desired,  optional.",
     valid_on |-> <<2025, 5, 12>>,
     expires_on |-> <<2025, 12, 31>>,
     nb_repo |-> "https://github.com/spacetelescope/tike_content",
     root_nb_directory |-> <<"content", "notebooks">>,
     python_version |-> "3.12.9"]

ShippedBlocks ==
    << [include_subdirs |-> << <<"data-access">>, <<"lcviz-tutorial">>, <<"tglc">>,
                               <<"zooniverse_view_lightcurve">> >>],
       [root_nb_directory |-> <<"content", "notebooks">>,
        include_subdirs |-> << <<".">> >>,
        exclude_subdirs |-> << <<"aas-245">>, <<"tesscut-in-the-cloud">>,
                               <<"webinar-series">> >>] >>

(* The directories of the repository, in walk order (parents first). *)
Dirs ==
    << <<>>,
       <<"code">>,
       <<"code", "image-builds">>,
       <<"content">>,
       <<"content", "notebooks">>,
       <<"content", "notebooks", "aas-245">>,
       <<"content", "notebooks", "data-access">>,
       <<"content", "notebooks", "lcviz-tutorial">>,
       <<"content", "notebooks", "tesscut-in-the-cloud">>,
       <<"content", "notebooks", "tglc">>,
       <<"content", "notebooks", "webinar-series">>,
       <<"content", "notebooks", "zooniverse_view_lightcurve">> >>

(* Dates are <<year, month, day>>. *)
DateLE(a, b) ==
    \/ a[1] < b[1]
    \/ a[1] = b[1] /\ a[2] < b[2]
    \/ a[1] = b[1] /\ a[2] = b[2] /\ a[3] <= b[3]

(***************************************************************************)
(* Paths and directory trees.                                              *)
(***************************************************************************)
IsPrefix(p, q) == Len(p) <= Len(q) /\ SubSeq(q, 1, Len(p)) = p

(* "." names the directory it is resolved in. *)
KeepDot(p) == p

Normalize(p) == SelectSeq(p, LAMBDA s : s # ".")

(* Entries are relative extensions of root_nb_directory. *)
ResolvePath(root, entry) == Normalize(root \o entry)

(* Directories are recursively included. *)
TreeOneLevel(d) == SelectSeq(Dirs, LAMBDA x : IsPrefix(d, x) /\ Len(x) <= Len(d) + 1)

Tree(d) == SelectSeq(Dirs, LAMBDA x : IsPrefix(d, x))

(***************************************************************************)
(* Defaults.                                                               *)
(***************************************************************************)
DefaultIncludeNone == <<>>

DefaultIncludeSubdirs == << <<".">> >>

DefaultExcludeAll == << <<".">> >>

DefaultExcludeSubdirs == <<>>

DefaultRootNotebooks == <<"content", "notebooks">>

DefaultRoot == <<>>

HeaderRoot(h) ==
    IF "root_nb_directory" \in DOMAIN h THEN h.root_nb_directory ELSE DefaultRoot

EffectiveRootHeaderOnly(h, b) == HeaderRoot(h)

EffectiveRoot(h, b) ==
    IF "root_nb_directory" \in DOMAIN b THEN b.root_nb_directory ELSE HeaderRoot(h)

FillDefaults(h, b) ==
    [root_nb_directory |-> EffectiveRoot(h, b),
     include_subdirs |-> IF "include_subdirs" \in DOMAIN b
                         THEN b.include_subdirs ELSE DefaultIncludeSubdirs,
     exclude_subdirs |-> IF "exclude_subdirs" \in DOMAIN b
                         THEN b.exclude_subdirs ELSE DefaultExcludeSubdirs]

(***************************************************************************)
(* Resolution of the directory blocks.                                     *)
(***************************************************************************)
AppendAll(list, items) == list \o items

RECURSIVE AppendNew(_, _)
AppendNew(list, items) ==
    IF items = <<>> THEN list
    ELSE AppendNew(IF Head(items) \in Range(list) THEN list
                   ELSE Append(list, Head(items)),
                   Tail(items))

(* The directories under the entries of one block, in entry order. *)
RECURSIVE Trees(_, _)
Trees(root, entries) ==
    IF entries = <<>> THEN <<>>
    ELSE AppendNew(Tree(ResolvePath(root, Head(entries))),
                   Trees(root, Tail(entries)))

(* The excluded directories of all the blocks read. *)
ExcludedOfLastBlock(exc, new) == new

AccumulateExcluded(exc, new) == AppendNew(exc, new)

Subtract(inc, exc) == SelectSeq(inc, LAMBDA x : x \notin Range(exc))

(* The resolution of a whole document: its blocks in order. *)
RECURSIVE IncludedOf(_, _)
IncludedOf(h, d) ==
    IF d = <<>> THEN <<>>
    ELSE LET f == FillDefaults(h, d[Len(d)]) IN
         AppendNew(IncludedOf(h, SubSeq(d, 1, Len(d) - 1)),
                   Trees(f.root_nb_directory, f.include_subdirs))

RECURSIVE ExcludedOf(_, _)
ExcludedOf(h, d) ==
    IF d = <<>> THEN <<>>
    ELSE LET f == FillDefaults(h, d[Len(d)]) IN
         AccumulateExcluded(ExcludedOf(h, SubSeq(d, 1, Len(d) - 1)),
                            Trees(f.root_nb_directory, f.exclude_subdirs))

Resolved(h, d) == Subtract(IncludedOf(h, d), ExcludedOf(h, d))

(***************************************************************************)
(* Outputs of the build.                                                   *)
(***************************************************************************)
(* The directories that hold a requirements.txt. *)
RequirementsDirs ==
    { <<>>,
      <<"content", "notebooks", "aas-245">>,
      <<"content", "notebooks", "data-access">>,
      <<"content", "notebooks", "lcviz-tutorial">>,
      <<"content", "notebooks", "tglc">>,
      <<"content", "notebooks", "webinar-series">> }

RequirementsOfIncluded(selected, inc) ==
    SelectSeq(inc, LAMBDA d : d \in RequirementsDirs)

RequirementsUnion(selected, inc) ==
    SelectSeq(selected, LAMBDA d : d \in RequirementsDirs)

(* Tools the build system may add to the environment. *)
BaseToolChoices == { {}, {"gcc", "cython"}, {"gcc", "lapack", "fftw", "cython"} }

NoConda == [python_version |-> "", base_tools |-> {}]

CondaPythonMinor(h) == "3.12"

CondaPython(h) == h.python_version

(***************************************************************************)
(* The documents read.                                                     *)
(***************************************************************************)
EntrySet == { <<".">>, <<"data-access">> }

BlockRoot == <<"code">>

Lists(n) == UNION {[1..k -> EntrySet] : k \in 0..n}

Block(S, i, e) ==
    [f \in S |-> CASE f = "root_nb_directory" -> BlockRoot
                   [] f = "include_subdirs" -> i
                   [] f = "exclude_subdirs" -> e]

(* The size of a block: the fields it declares and the entries they list. *)
Declared(b) ==
    (IF "root_nb_directory" \in DOMAIN b THEN 1 ELSE 0)
    + (IF "include_subdirs" \in DOMAIN b THEN 1 + Len(b.include_subdirs) ELSE 0)
    + (IF "exclude_subdirs" \in DOMAIN b THEN 1 + Len(b.exclude_subdirs) ELSE 0)

GenericBlocks ==
    {b \in {Block(S, i, e) :
               S \in SUBSET {"root_nb_directory", "include_subdirs", "exclude_subdirs"},
               i \in Lists(MaxDeclared - 1), e \in Lists(MaxDeclared - 1)} :
        Declared(b) <= MaxDeclared}

RECURSIVE Used(_)
Used(d) == IF d = <<>> THEN 0 ELSE Declared(Head(d)) + Used(Tail(d))

(* No notebook runs while an image specification is resolved. *)
TransientIdle ==
    /\ cell = 0
    /\ names = {}
    /\ status = "idle"
    /\ tab = <<>>
    /\ FFIs = <<>>
    /\ loop = 0
    /\ target_mask = <<>>
    /\ background_mask = <<>>

(* A name of the kernel that no cell has bound yet. *)
Unbound == [kind |-> "unbound"]

(* No data-access notebook runs either. *)
AccessIdle ==
    /\ at = "idle"
    /\ uris = <<>>
    /\ c_uri = Unbound
    /\ opened = Unbound
    /\ hdulist = Unbound
    /\ sci = Unbound
    /\ limits = Unbound
    /\ shown = Unbound
    /\ raised = "none"

Headers ==
    {ShippedHeader,
     [f \in DOMAIN ShippedHeader \ {"root_nb_directory"} |-> ShippedHeader[f]]}

Init ==
    /\ header \in Headers
    /\ doc = <<>>
    /\ filled = <<>>
    /\ chosen = <<>>
    /\ included = <<>>
    /\ excluded = <<>>
    /\ effective = <<>>
    /\ pc = "reading"
    /\ requirements = <<>>
    /\ conda = NoConda
    /\ TransientIdle
    /\ AccessIdle

(* One directory block: defaults filled in, then its directories selected. *)
Select(b) ==
    LET f == FillDefaults(header, b)
        inc == Trees(f.root_nb_directory, f.include_subdirs)
        exc == Trees(f.root_nb_directory, f.exclude_subdirs)
    IN
    /\ doc' = Append(doc, b)
    /\ filled' = Append(filled, f)
    /\ chosen' = Append(chosen, [included |-> inc, excluded |-> exc])
    /\ included' = AppendNew(included, inc)
    /\ excluded' = AccumulateExcluded(excluded, exc)
    /\ UNCHANGED <<header, effective, pc, outputs, transient, access>>

ReadBlock ==
    /\ pc = "reading"
    /\ Len(doc) < MaxBlocks
    /\ \E b \in GenericBlocks :
        /\ Used(doc) + Declared(b) <= MaxDeclared
        /\ Select(b)

ReadShippedBlock ==
    /\ pc = "reading"
    /\ header = ShippedHeader
    /\ Len(doc) < Len(ShippedBlocks)
    /\ doc = SubSeq(ShippedBlocks, 1, Len(doc))
    /\ Select(ShippedBlocks[Len(doc) + 1])

FinishWritingDefaults ==
    /\ pc = "reading"
    /\ effective' = Subtract(included, excluded)
    /\ doc' = filled
    /\ pc' = "done"
    /\ UNCHANGED <<header, filled, chosen, included, excluded, outputs, transient, access>>

Finish ==
    /\ pc = "reading"
    /\ effective' = Subtract(included, excluded)
    /\ pc' = "done"
    /\ UNCHANGED <<header, doc, filled, chosen, included, excluded, outputs, transient, access>>

(* The outputs: the union of the requirements.txt files of the selected     *)
(* directories, each kept with its directory of origin, and the conda spec  *)
(* with the declared Python version and the base tools the build chooses.   *)
BuildEnvironment ==
    /\ pc = "done"
    /\ requirements' = RequirementsUnion(effective, included)
    /\ \E tools \in BaseToolChoices :
        conda' = [python_version |-> CondaPython(header), base_tools |-> tools]
    /\ pc' = "built"
    /\ UNCHANGED <<header, doc, filled, chosen, included, excluded, effective, transient, access>>

Next == ReadBlock \/ ReadShippedBlock \/ Finish \/ BuildEnvironment

Spec == Init /\ [][Next]_vars

(***************************************************************************)
(* The documented reading of a document, stated over sets of directories.  *)
(***************************************************************************)
RootOf(h, b) ==
    IF "root_nb_directory" \in DOMAIN b THEN b.root_nb_directory
    ELSE IF "root_nb_directory" \in DOMAIN h THEN h.root_nb_directory
    ELSE <<>>

IncludesOf(b) ==
    IF "include_subdirs" \in DOMAIN b THEN b.include_subdirs ELSE << <<".">> >>

ExcludesOf(b) ==
    IF "exclude_subdirs" \in DOMAIN b THEN b.exclude_subdirs ELSE <<>>

PathOf(root, e) == SelectSeq(root \o e, LAMBDA s : s # ".")

Under(d) ==
    {x \in Range(Dirs) : Len(d) <= Len(x) /\ \A k \in 1..Len(d) : x[k] = d[k]}

UnionOfTrees(paths) == UNION {Under(p) : p \in paths}

PathsOf(root, entries) == {PathOf(root, entries[k]) : k \in 1..Len(entries)}

IncludePaths(h, d) ==
    UNION {PathsOf(RootOf(h, d[i]), IncludesOf(d[i])) : i \in 1..Len(d)}

ExcludePaths(h, d) ==
    UNION {PathsOf(RootOf(h, d[i]), ExcludesOf(d[i])) : i \in 1..Len(d)}

EffectiveSet(h, d) ==
    UnionOfTrees(IncludePaths(h, d)) \ UnionOfTrees(ExcludePaths(h, d))

(* The document d with field set to v in every block that omits it. *)
Explicit(d, field, v) ==
    [i \in 1..Len(d) |->
        IF field \in DOMAIN d[i] THEN d[i] ELSE (field :> v) @@ d[i]]

Omits(i, field) == field \notin DOMAIN doc[i]

(***************************************************************************)
(* C1: once every block is read, the effective notebook set is the union,  *)
(* over all blocks, of the trees under the include entries minus the       *)
(* union, over all blocks, of the trees under the exclude entries; a       *)
(* directory under an exclude entry of any block is absent from it.        *)
(***************************************************************************)
C1_EffectiveIsUnionMinusExcluded ==
    pc = "done" =>
        /\ Range(effective) = EffectiveSet(header, doc)
        /\ \A x \in UnionOfTrees(ExcludePaths(header, doc)) : x \notin Range(effective)

(* A directory one block includes and another block excludes. *)
C1_Witness ==
    /\ pc = "done"
    /\ Len(doc) = 2
    /\ effective # <<>>
    /\ \E x \in Range(Dirs) :
        /\ x \in UnionOfTrees(PathsOf(RootOf(header, doc[1]), IncludesOf(doc[1])))
        /\ x \notin UnionOfTrees(PathsOf(RootOf(header, doc[1]), ExcludesOf(doc[1])))
        /\ x \in UnionOfTrees(PathsOf(RootOf(header, doc[2]), ExcludesOf(doc[2])))
        /\ x \notin Range(effective)

(***************************************************************************)
(* C2: a block that omits include_subdirs is resolved as the same block    *)
(* with include_subdirs = ["."]: it selects the whole tree under its       *)
(* effective root.                                                         *)
(***************************************************************************)
C2_OmittedIncludeIsDot ==
    /\ \A i \in 1..Len(doc) :
        Omits(i, "include_subdirs") =>
            /\ filled[i].include_subdirs = << <<".">> >>
            /\ Range(chosen[i].included) = Under(RootOf(header, doc[i]))
    /\ pc = "done" =>
        Range(effective)
            = EffectiveSet(header, Explicit(doc, "include_subdirs", << <<".">> >>))

C2_Witness ==
    /\ pc = "done"
    /\ \E i \in 1..Len(doc) :
        /\ Omits(i, "include_subdirs")
        /\ chosen[i].included # <<>>
        /\ Range(chosen[i].included) \cap Range(effective) # {}

(***************************************************************************)
(* C3: a block that omits exclude_subdirs is resolved as the same block    *)
(* with exclude_subdirs = []: it removes no directory.                     *)
(***************************************************************************)
C3_OmittedExcludeIsEmpty ==
    /\ \A i \in 1..Len(doc) :
        Omits(i, "exclude_subdirs") =>
            /\ filled[i].exclude_subdirs = <<>>
            /\ chosen[i].excluded = <<>>
    /\ pc = "done" =>
        Range(effective) = EffectiveSet(header, Explicit(doc, "exclude_subdirs", <<>>))

C3_Witness ==
    /\ pc = "done"
    /\ Len(doc) = 2
    /\ \A i \in 1..Len(doc) : Omits(i, "exclude_subdirs") /\ chosen[i].included # <<>>
    /\ Range(effective) = Range(included)

(***************************************************************************)
(* C4: the effective root of a block is its own root_nb_directory when it  *)
(* declares one and the header's otherwise, and every include and exclude  *)
(* entry of the block is resolved as a relative extension of that root.    *)
(***************************************************************************)
C4_EffectiveRootOfBlock ==
    \A i \in 1..Len(doc) :
        /\ ~Omits(i, "root_nb_directory")
            => filled[i].root_nb_directory = doc[i].root_nb_directory
        /\ Omits(i, "root_nb_directory") /\ "root_nb_directory" \in DOMAIN header
            => filled[i].root_nb_directory = header.root_nb_directory
        /\ Range(chosen[i].included)
            = UnionOfTrees(PathsOf(RootOf(header, doc[i]), IncludesOf(doc[i])))
        /\ Range(chosen[i].excluded)
            = UnionOfTrees(PathsOf(RootOf(header, doc[i]), ExcludesOf(doc[i])))

(* A block with its own root and a block on the header's root, both selecting. *)
C4_Witness ==
    /\ pc = "done"
    /\ "root_nb_directory" \in DOMAIN header
    /\ Len(doc) = 2
    /\ ~Omits(1, "root_nb_directory")
    /\ Omits(2, "root_nb_directory")
    /\ filled[1].root_nb_directory # filled[2].root_nb_directory
    /\ chosen[1].included # <<>>
    /\ chosen[2].included # <<>>
    /\ chosen[2].excluded # <<>>

(***************************************************************************)
(* C5: when neither the block nor the header declares root_nb_directory,   *)
(* the effective root is the empty path, the top of the repository, and    *)
(* the block's entries are resolved relative to it.                        *)
(***************************************************************************)
C5_DefaultRootIsTopOfRepo ==
    \A i \in 1..Len(doc) :
        Omits(i, "root_nb_directory") /\ "root_nb_directory" \notin DOMAIN header =>
            /\ filled[i].root_nb_directory = <<>>
            /\ Range(chosen[i].included)
                = UnionOfTrees(PathsOf(<<>>, IncludesOf(doc[i])))
            /\ Range(chosen[i].excluded)
                = UnionOfTrees(PathsOf(<<>>, ExcludesOf(doc[i])))

C5_Witness ==
    /\ pc = "done"
    /\ "root_nb_directory" \notin DOMAIN header
    /\ \E i \in 1..Len(doc) :
        /\ Omits(i, "root_nb_directory")
        /\ <<"code">> \in Range(chosen[i].included)
        /\ <<"content", "notebooks", "tglc">> \in Range(effective)

C8_InclusionIsRecursive ==
    pc = "done" =>
        \A p \in IncludePaths(header, doc) : \A x \in Under(p) :
            \/ x \in Range(effective)
            \/ \E q \in ExcludePaths(header, doc) : x \in Under(q)

(* A selected directory two levels below the include entry that selects it. *)
C8_Witness ==
    /\ pc = "done"
    /\ ExcludePaths(header, doc) # {}
    /\ \E p \in IncludePaths(header, doc) : \E x \in Under(p) :
        /\ Len(x) >= Len(p) + 2
        /\ x \in Range(effective)

(***************************************************************************)
(* C9: a directory reached through more than one include entry or more     *)
(* than one block appears exactly once in the effective notebook set.      *)
(***************************************************************************)
C9_DirectoryAppearsOnce ==
    pc = "done" =>
        \A x \in EffectiveSet(header, doc) :
            Cardinality({n \in 1..Len(effective) : effective[n] = x}) = 1

(* data-access/ of the shipped document: listed in the first block, covered *)
(* by "." in the second.                                                    *)
C9_Witness ==
    /\ pc = "done"
    /\ doc = ShippedBlocks
    /\ <<"content", "notebooks", "data-access">> \in Range(chosen[1].included)
    /\ <<"content", "notebooks", "data-access">> \in Range(chosen[2].included)
    /\ <<"content", "notebooks", "data-access">> \in Range(effective)

(***************************************************************************)
(* C10: an exclude_subdirs entry with no effect.  Removing a declared      *)
(* exclude entry, or adding one, leaves the effective notebook set         *)
(* unchanged when the entry qualifies.                                     *)
(***************************************************************************)
PrefixOf(p, q) == Len(p) <= Len(q) /\ \A k \in 1..Len(p) : q[k] = p[k]

RemoveAt(s, k) == SubSeq(s, 1, k - 1) \o SubSeq(s, k + 1, Len(s))

WithoutExclude(d, i, k) ==
    [d EXCEPT ![i] = [@ EXCEPT !.exclude_subdirs = RemoveAt(@, k)]]

WithExclude(d, i, e) ==
    [d EXCEPT ![i] = ("exclude_subdirs" :> Append(ExcludesOf(@), e)) @@ @]

NestedUnderInclude(q) == \E p \in IncludePaths(header, doc) : PrefixOf(p, q)

AncestorOfInclude(q) == \E p \in IncludePaths(header, doc) : PrefixOf(q, p)

NoEffect(qualifies(_)) ==
    pc = "done" =>
        \A i \in 1..Len(doc) :
            /\ \A k \in 1..Len(ExcludesOf(doc[i])) :
                qualifies(PathOf(RootOf(header, doc[i]), ExcludesOf(doc[i])[k]))
                    => Range(effective) = EffectiveSet(header, WithoutExclude(doc, i, k))
            /\ \A e \in EntrySet :
                qualifies(PathOf(RootOf(header, doc[i]), e))
                    => Range(effective) = EffectiveSet(header, WithExclude(doc, i, e))

NotNested(q) == ~NestedUnderInclude(q)

Unrelated(q) == ~NestedUnderInclude(q) /\ ~AncestorOfInclude(q)

(* C10 as stated: an exclude entry not nested under any included directory *)
(* has no effect.                                                          *)
C10_NotNestedExcludeHasNoEffect == NoEffect(NotNested)

(* C10 as amended: an exclude entry that is neither nested under an        *)
(* included directory nor an ancestor of one has no effect.                *)
C10_UnrelatedExcludeHasNoEffect == NoEffect(Unrelated)

(* An exclude entry naming an existing directory apart from every include. *)
C10_Witness ==
    /\ pc = "done"
    /\ effective # <<>>
    /\ \E i \in 1..Len(doc) : \E k \in 1..Len(ExcludesOf(doc[i])) :
        LET q == PathOf(RootOf(header, doc[i]), ExcludesOf(doc[i])[k]) IN
        /\ Unrelated(q)
        /\ Under(q) # {}

(***************************************************************************)
(* C11: the requirements union holds the requirements.txt of a directory   *)
(* exactly when that directory is in the effective notebook set: at any    *)
(* depth of a selected directory, and not when the directory is only under *)
(* an excluded or unselected one.                                          *)
(***************************************************************************)
C11_RequirementsOfSelectedDirectories ==
    pc = "built" =>
        \A d \in RequirementsDirs :
            d \in Range(requirements) <=> d \in EffectiveSet(header, doc)

(* A requirements.txt below an include entry is in the union, one under   *)
(* an excluded directory and one in an unselected directory are not.       *)
C11_Witness ==
    /\ pc = "built"
    /\ \E p \in IncludePaths(header, doc) : \E d \in Range(requirements) :
        PrefixOf(p, d) /\ Len(d) > Len(p)
    /\ \E d \in RequirementsDirs :
        d \in UnionOfTrees(IncludePaths(header, doc)) /\ d \notin Range(requirements)
    /\ \E d \in RequirementsDirs :
        d \notin UnionOfTrees(IncludePaths(header, doc)) /\ d \notin Range(requirements)

(***************************************************************************)
(* C13: the conda environment spec declares exactly the python_version of  *)
(* the header, whichever base tools the build adds.                        *)
(***************************************************************************)
C13_CondaDeclaresHeaderPython ==
    pc = "built" => conda.python_version = header.python_version

C13_Witness ==
    /\ pc = "built"
    /\ conda.python_version = "3.12.9"
    /\ conda.base_tools = {"gcc", "lapack", "fftw", "cython"}

(***************************************************************************)
(* C19: the effective notebook set does not depend on the order of the     *)
(* blocks nor on the order of the entries of an include_subdirs or         *)
(* exclude_subdirs list: every permutation resolves to the same set.       *)
(***************************************************************************)
Reorderings(n) == {f \in [1..n -> 1..n] : \A a, b \in 1..n : f[a] = f[b] => a = b}

Permute(q, f) == [k \in 1..Len(q) |-> q[f[k]]]

ListFields(b) == DOMAIN b \cap {"include_subdirs", "exclude_subdirs"}

WithList(d, i, field, list) ==
    [d EXCEPT ![i] = [g \in DOMAIN d[i] |-> IF g = field THEN list ELSE d[i][g]]]

C19_OrderDoesNotMatter ==
    pc = "done" =>
        /\ effective = Resolved(header, doc)
        /\ \A f \in Reorderings(Len(doc)) :
            Range(Resolved(header, Permute(doc, f))) = Range(effective)
        /\ \A i \in 1..Len(doc) : \A field \in ListFields(doc[i]) :
            \A f \in Reorderings(Len(doc[i][field])) :
                Range(Resolved(header, WithList(doc, i, field, Permute(doc[i][field], f))))
                    = Range(effective)

(* Two blocks whose exchange changes the order of the list, not the set. *)
C19_Witness ==
    /\ pc = "done"
    /\ Len(doc) = 2
    /\ excluded # <<>>
    /\ effective # <<>>
    /\ Resolved(header, <<doc[2], doc[1]>>) # effective

(***************************************************************************)
(* C20: for the shipped document the first block is redundant: both blocks *)
(* select what the second block alone selects, every directory under       *)
(* content/notebooks/ outside the trees aas-245/, tesscut-in-the-cloud/    *)
(* and webinar-series/, with data-access/, lcviz-tutorial/, tglc/ and      *)
(* zooniverse_view_lightcurve/ among them.                                 *)
(***************************************************************************)
Notebooks == <<"content", "notebooks">>

C20_ShippedFirstBlockRedundant ==
    pc = "done" /\ doc = ShippedBlocks =>
        /\ Range(effective) = Range(Resolved(header, <<ShippedBlocks[2]>>))
        /\ Range(effective)
            = {x \in Range(Dirs) :
                /\ PrefixOf(Notebooks, x)
                /\ \A t \in {"aas-245", "tesscut-in-the-cloud", "webinar-series"} :
                    ~PrefixOf(Notebooks \o <<t>>, x)}
        /\ \A t \in {"data-access", "lcviz-tutorial", "tglc", "zooniverse_view_lightcurve"} :
            Notebooks \o <<t>> \in Range(effective)

C20_Witness ==
    /\ pc = "done"
    /\ doc = ShippedBlocks
    /\ Len(chosen[1].included) = 4
    /\ Len(effective) = 5

(***************************************************************************)
(* C21: resolving an image specification leaves the document as it was     *)
(* read: no step changes the header or a block already read, and nothing   *)
(* changes the blocks once reading is over; and resolving the document a   *)
(* second time, from its header and blocks as they stand after the build,  *)
(* gives the same effective notebook set and the same requirements union.  *)
(***************************************************************************)
C21_ResolutionLeavesDocument ==
    /\ [][header' = header]_vars
    /\ [][/\ Len(doc') >= Len(doc)
          /\ \A k \in 1..Len(doc) : doc'[k] = doc[k]]_vars
    /\ [][pc # "reading" => doc' = doc]_vars
    /\ [](pc = "built" =>
            /\ Range(effective) = Range(Resolved(header, doc))
            /\ Range(requirements) =
                   Range(RequirementsUnion(Resolved(header, doc), IncludedOf(header, doc))))

(* A build from a header and a block that both leave fields to their       *)
(* defaults: the filled block differs from the block of the document, and  *)
(* the outputs are not empty.                                              *)
C21_Witness ==
    /\ pc = "built"
    /\ "root_nb_directory" \notin DOMAIN header
    /\ \E i \in 1..Len(doc) : filled[i] # doc[i]
    /\ effective # <<>>
    /\ requirements # <<>>

(***************************************************************************)
(* The transient notebook: its code cells run once each, in document       *)
(* order.  A cell is the sequence of its statements; a statement reads     *)
(* names and binds names.  Times are counted in half days, so that the     *)
(* Modified Julian Date, the Julian Date minus 2400000.5, is an integer.   *)
(***************************************************************************)
S(r, w) == [reads |-> r, writes |-> w]

CellCode ==
    << << S({}, {"plt", "np", "fits", "Table", "Mast", "Observations", "SkyCoord",
                 "Time", "u", "Tesscut", "lk"}) >>,
       << S({}, {"url"}), S({"Table", "url"}, {"tab"}), S({"tab"}, {}) >>,
       << S({"Observations"}, {"FFIs"}), S({"FFIs"}, {}), S({"FFIs"}, {}),
          S({"FFIs"}, {}) >>,
       << S({"FFIs"}, {}) >>,
       << S({"FFIs"}, {"example_RAs"}), S({"FFIs"}, {"example_Decs"}),
          S({"plt", "example_RAs", "example_Decs"}, {}), S({"plt"}, {}),
          S({"plt"}, {}) >>,
       << S({"tab", "np"}, {}), S({"tab", "np"}, {}) >>,
       << S({"FFIs", "SkyCoord", "u"}, {}) >>,
       << S({"tab", "SkyCoord", "u"}, {}) >>,
       << S({"tab", "Time"}, {}) >>,
       << S({"tab"}, {}), S({"tab"}, {}) >>,
       << >>,
       << S({"tab"}, {"ntab"}), S({"tab"}, {}) >>,
       << S({"np", "tab"}, {}), S({"np", "tab"}, {}) >>,
       << S({}, {"name"}), S({"np", "tab", "name"}, {"i"}), S({"tab", "i"}, {"row"}),
          S({"row"}, {}) >>,
       << S({"row"}, {"minStart"}), S({"row"}, {"maxStart"}),
          S({"Observations", "name", "minStart", "maxStart"}, {"obs_table"}),
          S({"obs_table"}, {}) >>,
       << S({"obs_table"}, {"sectors"}), S({"sectors"}, {}) >>,
       << S({"lk", "name", "sectors"}, {"search_result"}), S({"search_result"}, {}) >>,
       << S({}, {"size"}), S({"search_result", "size"}, {"tpf"}) >>,
       << S({"np", "tpf"}, {}) >>,
       << S({"tpf"}, {}), S({"tpf"}, {}) >>,
       << S({"np", "size"}, {"central_index"}), S({"np", "size"}, {"target_mask"}),
          S({"target_mask", "central_index"}, {}), S({"tpf", "target_mask"}, {}),
          S({"tpf", "target_mask"}, {"target_lc"}), S({"target_lc"}, {}) >>,
       << S({"tpf"}, {"background_mask"}), S({"tpf", "background_mask"}, {}) >>,
       << S({"background_mask"}, {}), S({"background_mask"}, {}),
          S({"background_mask"}, {}) >>,
       << S({"tpf", "background_mask"}, {}) >>,
       << S({"background_mask"}, {"n_background_pixels"}),
          S({"tpf", "background_mask", "n_background_pixels"},
            {"background_lc_per_pixel"}),
          S({"background_lc_per_pixel", "n_target_pixels"},
            {"background_estimate_lc"}) >>,
       << S({"target_lc", "background_estimate_lc"}, {"corrected_lc"}),
          S({"corrected_lc", "np"}, {"peaknorm_lc"}), S({"peaknorm_lc"}, {}),
          S({"plt", "row"}, {}), S({"plt", "row"}, {}) >> >>

(* The body of the search loop, run once for each row of tab. *)
LoopBody ==
    << S({"tab"}, {"i", "row"}), S({"row", "FFIs", "u"}, {"arr1"}),
       S({"row", "FFIs"}, {"arr2"}), S({"tab", "i", "np", "arr1"}, {}),
       S({"tab", "i", "np", "arr1", "arr2"}, {}), S({"np", "i", "ntab"}, {}) >>

NumCells == Len(CellCode)

(* The statements in order, up to the first that reads an unbound name. *)
RECURSIVE Exec(_, _)
Exec(stmts, bound) ==
    IF stmts = <<>> THEN [names |-> bound, ok |-> TRUE]
    ELSE IF Head(stmts).reads \subseteq bound
         THEN Exec(Tail(stmts), bound \cup Head(stmts).writes)
         ELSE [names |-> bound, ok |-> FALSE]

(* The program constants of the notebook. *)
JDZero == 2458000
LeadDays == 26
FieldRadius == 6

HalfDays(d) == 2 * d

MJD(jd) == jd - (HalfDays(2400000) + 1)

(* float(text.strip('>')): the number of a "3" or ">3" entry. *)
StripFloat(text) == text.days

AbsDiff(a, b) == IF a >= b THEN a - b ELSE b - a

(* Angular separation, in degrees, of two points of the equator. *)
Separation(a, b) ==
    LET d == AbsDiff(a, b) IN IF d <= 180 THEN d ELSE 360 - d

Near(r, f) == Separation(r.SkyCoord, f.SkyCoord) < FieldRadius

TimedStrict(r, f) == r.minStart < f.t_min /\ r.maxStart > f.t_min

Timed(r, f) == r.minStart <= f.t_min /\ r.maxStart >= f.t_min

(* np.sum(arr1) and np.sum(arr1 & arr2) *)
CountNear(r, ffis) == Cardinality({j \in 1..Len(ffis) : Near(r, ffis[j])})

CountTimedOnly(r, ffis) == Cardinality({j \in 1..Len(ffis) : Timed(r, ffis[j])})

CountNearTimed(r, ffis) ==
    Cardinality({j \in 1..Len(ffis) : Near(r, ffis[j]) /\ Timed(r, ffis[j])})

(* FFIs.sort('t_min') *)
RECURSIVE InsertByTmin(_, _)
InsertByTmin(f, sorted) ==
    IF sorted = <<>> THEN <<f>>
    ELSE IF f.t_min < Head(sorted).t_min THEN <<f>> \o sorted
    ELSE <<Head(sorted)>> \o InsertByTmin(f, Tail(sorted))

RECURSIVE SortByTmin(_)
SortByTmin(q) ==
    IF q = <<>> THEN <<>>
    ELSE InsertByTmin(q[Len(q)], SortByTmin(SubSeq(q, 1, Len(q) - 1)))

(* A column added to, or replaced in, every row of a table. *)
WithColumn(t, col, values) ==
    [k \in 1..Len(t) |->
        [c \in DOMAIN t[k] \cup {col} |-> IF c = col THEN values[k] ELSE t[k][c]]]

(* The values of a new column, one per row of the table. *)
Zeros(t) == [k \in 1..Len(t) |-> 0]

(* The tables the two queries may return. *)
Text(limit, days) == [limit |-> limit, days |-> days]

TransientRows ==
    { [RA |-> 0, peakt |-> 0, rise |-> Text(FALSE, 1), fade |-> Text(FALSE, 2)],
      [RA |-> 0, peakt |-> 0, rise |-> Text(TRUE, 3), fade |-> Text(TRUE, 2)],
      [RA |-> 1, peakt |-> 2, rise |-> Text(FALSE, 1), fade |-> Text(FALSE, 2)] }

FFIRows ==
    { [s_ra |-> 5, t_min |-> 115945],
      [s_ra |-> 5, t_min |-> 115944],
      [s_ra |-> 354, t_min |-> 115950],
      [s_ra |-> 12, t_min |-> 116005],
      [s_ra |-> 5, t_min |-> 116004] }

TablesOf(rows, n) == UNION {[1..k -> rows] : k \in 0..n}

(* The image specification plays no part in a notebook run. *)
ImageIdle ==
    /\ header = ShippedHeader
    /\ doc = <<>>
    /\ filled = <<>>
    /\ chosen = <<>>
    /\ included = <<>>
    /\ excluded = <<>>
    /\ effective = <<>>
    /\ pc = "idle"
    /\ requirements = <<>>
    /\ conda = NoConda

TransientInit ==
    /\ ImageIdle
    /\ AccessIdle
    /\ cell = 1
    /\ names = {}
    /\ status = "running"
    /\ tab = <<>>
    /\ FFIs = <<>>
    /\ loop = 0
    /\ target_mask = <<>>
    /\ background_mask = <<>>

(* The end of a cell: on to the next one, or the run stops at the error. *)
Advance(r) ==
    /\ names' = r.names
    /\ cell' = IF r.ok THEN cell + 1 ELSE cell
    /\ status' = IF ~r.ok THEN "NameError"
                 ELSE IF cell = NumCells THEN "finished" ELSE "running"

DataCells == {2, 3, 6, 7, 8, 9, 10, 12, 21, 22, 23}

RunCell ==
    /\ status = "running"
    /\ cell \notin DataCells
    /\ Advance(Exec(CellCode[cell], names))
    /\ UNCHANGED <<tab, FFIs, loop, image, access, masks>>

(* tab = Table.read(url, format='csv') *)
ReadTable ==
    /\ status = "running"
    /\ cell = 2
    /\ LET r == Exec(CellCode[cell], names) IN
        /\ Advance(r)
        /\ \E t \in TablesOf(TransientRows, MaxRows) : tab' = IF r.ok THEN t ELSE tab
    /\ UNCHANGED <<FFIs, loop, image, access, masks>>

(* FFIs = Observations.query_criteria(...); FFIs.sort('t_min') *)
QueryFFIs ==
    /\ status = "running"
    /\ cell = 3
    /\ LET r == Exec(CellCode[cell], names) IN
        /\ Advance(r)
        /\ \E t \in TablesOf(FFIRows, MaxFFIs) :
            FFIs' = IF r.ok THEN SortByTmin(t) ELSE FFIs
    /\ UNCHANGED <<tab, loop, image, access, masks>>

(* The cells that add a column to one of the tables. *)
ColumnCell(k, newtab, newFFIs) ==
    /\ status = "running"
    /\ cell = k
    /\ LET r == Exec(CellCode[cell], names) IN
        /\ Advance(r)
        /\ tab' = IF r.ok THEN newtab ELSE tab
        /\ FFIs' = IF r.ok THEN newFFIs ELSE FFIs
    /\ UNCHANGED <<loop, image, access, masks>>

AddCountColumns ==
    ColumnCell(6, WithColumn(WithColumn(tab, "nTESS", Zeros(tab)), "nTESStimed", Zeros(tab)), FFIs)

FFIDegrees(f) == f.s_ra

FFICoords == ColumnCell(7, tab, WithColumn(FFIs, "SkyCoord", [k \in 1..Len(FFIs) |-> FFIDegrees(FFIs[k])]))

HourAngleDegrees(r) == 15 * r.RA

TargetCoords == ColumnCell(8, WithColumn(tab, "SkyCoord", [k \in 1..Len(tab) |-> HourAngleDegrees(tab[k])]),
               FFIs)

PeakJD(r) == r.peakt + HalfDays(JDZero)

PeakTimes == ColumnCell(9, WithColumn(tab, "peakTime", [k \in 1..Len(tab) |-> PeakJD(tab[k])]), FFIs)

MinStart(r) == MJD(r.peakTime) - HalfDays(StripFloat(r.rise)) - HalfDays(LeadDays)

MaxStart(r) == MJD(r.peakTime) + HalfDays(StripFloat(r.fade))

StartWindow ==
    ColumnCell(10, WithColumn(WithColumn(tab, "minStart", [k \in 1..Len(tab) |-> MinStart(tab[k])]),
                              "maxStart", [k \in 1..Len(tab) |-> MaxStart(tab[k])]),
               FFIs)

(* ntab = len(tab), and the loop is entered: an empty table ends the cell. *)
SearchStart ==
    /\ status = "running"
    /\ cell = 12
    /\ LET r == Exec(CellCode[cell], names) IN
        /\ names' = r.names
        /\ status' = IF ~r.ok THEN "NameError"
                     ELSE IF Len(tab) = 0 THEN "running" ELSE "looping"
        /\ cell' = IF r.ok /\ Len(tab) = 0 THEN cell + 1 ELSE cell
    /\ loop' = 0
    /\ UNCHANGED <<tab, FFIs, image, access, masks>>

(* One turn of the loop, for row i = loop; the last turn ends the cell. *)
SearchStep ==
    /\ status = "looping"
    /\ loop < Len(tab)
    /\ LET r == Exec(LoopBody, names)
           i == loop + 1
       IN
        /\ names' = r.names
        /\ tab' = IF r.ok
                  THEN [tab EXCEPT ![i].nTESS = CountNear(tab[i], FFIs),
                                   ![i].nTESStimed = CountNearTimed(tab[i], FFIs)]
                  ELSE tab
        /\ loop' = IF r.ok THEN loop + 1 ELSE loop
        /\ status' = IF ~r.ok THEN "NameError"
                     ELSE IF loop + 1 = Len(tab) THEN "running" ELSE "looping"
        /\ cell' = IF r.ok /\ loop + 1 = Len(tab) THEN cell + 1 ELSE cell
    /\ UNCHANGED <<FFIs, image, access, masks>>

(* The cutout: size = 9, and the pixels [row, column] of a size by size    *)
(* array.                                                                  *)
size == 9

Pixels == (0..(size - 1)) \X (0..(size - 1))

(* np.full((size, size), value, dtype=bool) *)
Full(value) == [p \in Pixels |-> value]

(* central_index = np.floor(size / 2.0).astype(int) *)
central_index == size \div 2

(* ~mask *)
Not(mask) == [p \in Pixels |-> ~mask[p]]

(* tpf[0].create_threshold_mask(threshold=0.001, reference_pixel=None):    *)
(* the pixels brighter than the threshold, here any of a few pixels.       *)
BrightPixels == {<<4, 4>>, <<5, 4>>, <<3, 3>>}

ThresholdMask(bright) == [p \in Pixels |-> p \in bright]

NoEdits(mask) == mask

(* background_mask[4,4]=False; background_mask[5,4]=False;                 *)
(* background_mask[5,5]=False                                              *)
ManualEdits(mask) ==
    [mask EXCEPT ![<<4, 4>>] = FALSE, ![<<5, 4>>] = FALSE, ![<<5, 5>>] = FALSE]

(* target_mask = np.full(...); target_mask[central_index, central_index] = True *)
TargetMask ==
    /\ status = "running"
    /\ cell = 21
    /\ LET r == Exec(CellCode[cell], names) IN
        /\ Advance(r)
        /\ target_mask' = IF "target_mask" \in r.names
                          THEN [Full(FALSE) EXCEPT ![<<central_index, central_index>>] = TRUE]
                          ELSE target_mask
    /\ UNCHANGED <<tab, FFIs, loop, background_mask, image, access>>

(* background_mask = ~tpf[0].create_threshold_mask(...) *)
BackgroundMask ==
    /\ status = "running"
    /\ cell = 22
    /\ LET r == Exec(CellCode[cell], names) IN
        /\ Advance(r)
        /\ \E bright \in SUBSET BrightPixels :
            background_mask' = IF "background_mask" \in r.names
                               THEN Not(ThresholdMask(bright))
                               ELSE background_mask
    /\ UNCHANGED <<tab, FFIs, loop, target_mask, image, access>>

(* The manual edits of the background mask. *)
EditBackgroundMask ==
    /\ status = "running"
    /\ cell = 23
    /\ LET r == Exec(CellCode[cell], names) IN
        /\ Advance(r)
        /\ background_mask' = IF r.ok THEN ManualEdits(background_mask)
                              ELSE background_mask
    /\ UNCHANGED <<tab, FFIs, loop, target_mask, image, access>>

TransientNext ==
    \/ RunCell
    \/ ReadTable
    \/ QueryFFIs
    \/ AddCountColumns
    \/ FFICoords
    \/ TargetCoords
    \/ PeakTimes
    \/ StartWindow
    \/ SearchStart
    \/ SearchStep
    \/ TargetMask
    \/ BackgroundMask
    \/ EditBackgroundMask

SpecTransient == TransientInit /\ [][TransientNext]_vars

(***************************************************************************)
(* The search loop as its documentation states it, from the columns the    *)
(* tables were read with.                                                  *)
(***************************************************************************)
PeakMJD(r) == r.peakt + 2 * 2458000 - 4800001

WindowMin(r) == PeakMJD(r) - 2 * r.rise.days - 2 * 26

WindowMax(r) == PeakMJD(r) + 2 * r.fade.days

CountedInNTESS(r, f) ==
    LET d == AbsDiff(15 * r.RA, f.s_ra) IN (IF d <= 180 THEN d ELSE 360 - d) < 6

CountedInNTESStimed(r, f) ==
    CountedInNTESS(r, f) /\ WindowMin(r) <= f.t_min /\ f.t_min <= WindowMax(r)

Processed == 1..loop

(***************************************************************************)
(* C14: for every transient the loop has processed, an FFI is counted in   *)
(* nTESStimed exactly when it is counted in nTESS and its start time t_min *)
(* lies in [peak MJD - rise - 26, peak MJD + fade], both ends included.    *)
(***************************************************************************)
C14_TimedCountsFFIsInWindow ==
    \A i \in Processed :
        /\ tab[i].minStart = WindowMin(tab[i])
        /\ tab[i].maxStart = WindowMax(tab[i])
        /\ tab[i].nTESS
            = Cardinality({j \in 1..Len(FFIs) : CountedInNTESS(tab[i], FFIs[j])})
        /\ tab[i].nTESStimed
            = Cardinality({j \in 1..Len(FFIs) : CountedInNTESStimed(tab[i], FFIs[j])})

(* A processed transient with an FFI that starts exactly at minStart and   *)
(* is counted, and an FFI in the field that starts too early and is not.   *)
C14_Witness ==
    /\ loop >= 1
    /\ tab[1].nTESS = 2
    /\ tab[1].nTESStimed = 1
    /\ \E j \in 1..Len(FFIs) :
        FFIs[j].t_min = tab[1].minStart /\ CountedInNTESStimed(tab[1], FFIs[j])
    /\ \E j \in 1..Len(FFIs) :
        FFIs[j].t_min < tab[1].minStart /\ CountedInNTESS(tab[1], FFIs[j])

(***************************************************************************)
(* C17: run once each in document order, no code cell of the transient     *)
(* notebook reads a name that no earlier cell or import has bound; the     *)
(* background-estimate cell finds n_target_pixels bound.                   *)
(***************************************************************************)
C17_NoUndefinedName == status # "NameError"

(***************************************************************************)
(* C18: once the count columns exist, every row the loop has processed has *)
(* 0 <= nTESStimed <= nTESS <= number of FFIs, and every row it has not    *)
(* yet processed has nTESS = nTESStimed = 0.                               *)
(***************************************************************************)
C18_CountsAreOrdered ==
    \A i \in 1..Len(tab) :
        "nTESS" \in DOMAIN tab[i] =>
            /\ i \in Processed =>
                /\ 0 <= tab[i].nTESStimed
                /\ tab[i].nTESStimed <= tab[i].nTESS
                /\ tab[i].nTESS <= Len(FFIs)
            /\ i \notin Processed => tab[i].nTESS = 0 /\ tab[i].nTESStimed = 0

(* In the loop: the first row counted, with fewer timed FFIs than FFIs in  *)
(* the field, and the second row still to come.                            *)
C18_Witness ==
    /\ status = "looping"
    /\ loop = 1
    /\ Len(tab) = 2
    /\ tab[1].nTESS > tab[1].nTESStimed
    /\ tab[1].nTESStimed > 0
    /\ tab[2].nTESS = 0

(***************************************************************************)
(* The data-access notebook, content/notebooks/data-access: its code cells *)
(* run once each in document order, and the run stops at the first cell    *)
(* that raises.  A string is the sequence of its characters, so that       *)
(* subscripting a string and subscripting a list are both what Python      *)
(* does.                                                                   *)
(***************************************************************************)
List(items) == [kind |-> "list", val |-> items]

Str(chars) == [kind |-> "str", val |-> chars]

(* The cloud URIs of the products, and the lists get_cloud_uris may return. *)
URIs == {<<"s", "3", ":", "a">>, <<"s", "3", ":", "b">>}

UriLists == UNION {[1..n -> URIs] : n \in 0..MaxUris}

(* v[0] is defined for a list or a string that is not empty. *)
HasFirst(v) == v.kind \in {"list", "str"} /\ Len(v.val) > 0

Whole(v) == v

(* v[0]: the first element of a list, the first character of a string. *)
First(v) == IF v.kind = "list" THEN Str(v.val[1]) ELSE Str(<<v.val[1]>>)

(* The file object fits.open returns, and what leaving the with block      *)
(* makes of it.                                                            *)
OpenFile(uri, n) == [kind |-> "hdulist", uri |-> uri, hdus |-> n, file |-> "open"]

StillOpen(h) == h

Closed(h) == [h EXCEPT !.file = "closed"]

(* hdulist[1].data: the array of the first extension. *)
DataOf(h, ext) == [kind |-> "array", uri |-> h.uri, ext |-> ext]

AccessInit ==
    /\ ImageIdle
    /\ TransientIdle
    /\ at = "start"
    /\ uris = <<>>
    /\ c_uri = Unbound
    /\ opened = Unbound
    /\ hdulist = Unbound
    /\ sci = Unbound
    /\ limits = Unbound
    /\ shown = Unbound
    /\ raised = "none"

(* An exception ends the cell and the run. *)
Raise(e) ==
    /\ at' = "stopped"
    /\ raised' = e

Imports ==
    /\ at = "start"
    /\ at' = "imports"
    /\ UNCHANGED <<uris, c_uri, opened, hdulist, sci, limits, shown, raised>>
    /\ UNCHANGED <<image, transient>>

EnableCloud ==
    /\ at = "imports"
    /\ at' = "cloud"
    /\ UNCHANGED <<uris, c_uri, opened, hdulist, sci, limits, shown, raised>>
    /\ UNCHANGED <<image, transient>>

QueryProducts ==
    /\ at = "cloud"
    /\ at' = "products"
    /\ UNCHANGED <<uris, c_uri, opened, hdulist, sci, limits, shown, raised>>
    /\ UNCHANGED <<image, transient>>

(* c_uri = Observations.get_cloud_uris(filtered) *)
GetCloudUris ==
    /\ at = "products"
    /\ \E l \in UriLists :
        /\ uris' = l
        /\ c_uri' = List(l)
    /\ at' = "uris"
    /\ UNCHANGED <<opened, hdulist, sci, limits, shown, raised>>
    /\ UNCHANGED <<image, transient>>

(* c_uri = c_uri[0] *)
FirstUri ==
    /\ at = "uris"
    /\ IF HasFirst(c_uri)
       THEN /\ c_uri' = First(c_uri)
            /\ at' = "first"
            /\ UNCHANGED raised
       ELSE /\ Raise("IndexError")
            /\ UNCHANGED c_uri
    /\ UNCHANGED <<uris, opened, hdulist, sci, limits, shown>>
    /\ UNCHANGED <<image, transient>>

(* with fits.open(c_uri, fsspec_kwargs={"anon": True}) as hdulist: the     *)
(* call takes a path as a string, the path has to be the one of a file,    *)
(* and the file behind it has some number of HDUs.                         *)
EnterWith ==
    /\ at = "first"
    /\ opened' = c_uri
    /\ IF c_uri.kind = "str" /\ c_uri.val \in URIs
       THEN /\ \E n \in 1..MaxHDUs : hdulist' = OpenFile(c_uri.val, n)
            /\ at' = "open"
            /\ UNCHANGED raised
       ELSE /\ Raise(IF c_uri.kind = "str" THEN "FileNotFoundError" ELSE "OSError")
            /\ UNCHANGED hdulist
    /\ UNCHANGED <<uris, c_uri, sci, limits, shown>>
    /\ UNCHANGED <<image, transient>>

(* hdulist.info(): reads the headers from the cloud; a failed read leaves  *)
(* the with block by exception, which closes the file.                     *)
Info ==
    /\ at = "open"
    /\ \E ok \in BOOLEAN :
        IF ok
        THEN /\ at' = "info"
             /\ UNCHANGED <<hdulist, raised>>
        ELSE /\ hdulist' = Closed(hdulist)
             /\ Raise("OSError")
    /\ UNCHANGED <<uris, c_uri, opened, sci, limits, shown>>
    /\ UNCHANGED <<image, transient>>

(* sci = hdulist[1].data: a file with the primary HDU alone has no HDU 1. *)
ExtractData ==
    /\ at = "info"
    /\ IF hdulist.hdus >= 2
       THEN /\ sci' = DataOf(hdulist, 1)
            /\ at' = "data"
            /\ UNCHANGED <<hdulist, raised>>
       ELSE /\ hdulist' = Closed(hdulist)
            /\ Raise("IndexError")
            /\ UNCHANGED sci
    /\ UNCHANGED <<uris, c_uri, opened, limits, shown>>
    /\ UNCHANGED <<image, transient>>

(* The end of the with block. *)
ExitWith ==
    /\ at = "data"
    /\ hdulist' = Closed(hdulist)
    /\ at' = "closed"
    /\ UNCHANGED <<uris, c_uri, opened, sci, limits, shown, raised>>
    /\ UNCHANGED <<image, transient>>

(* low = np.nanpercentile(sci, 1); high = np.nanpercentile(sci, 99) *)
Percentiles ==
    /\ at = "closed"
    /\ limits' = [kind |-> "limits", of |-> sci]
    /\ at' = "limits"
    /\ UNCHANGED <<uris, c_uri, opened, hdulist, sci, shown, raised>>
    /\ UNCHANGED <<image, transient>>

(* plt.imshow(sci, cmap='gray', vmin=low, vmax=high) *)
Imshow ==
    /\ at = "limits"
    /\ shown' = sci
    /\ at' = "shown"
    /\ UNCHANGED <<uris, c_uri, opened, hdulist, sci, limits, raised>>
    /\ UNCHANGED <<image, transient>>

(* !aws s3 ls s3://stpubdata/tess/public/ --no-sign-request *)
ListBucket ==
    /\ at = "shown"
    /\ at' = "listed"
    /\ UNCHANGED <<uris, c_uri, opened, hdulist, sci, limits, shown, raised>>
    /\ UNCHANGED <<image, transient>>

AccessNext ==
    \/ Imports
    \/ EnableCloud
    \/ QueryProducts
    \/ GetCloudUris
    \/ FirstUri
    \/ EnterWith
    \/ Info
    \/ ExtractData
    \/ ExitWith
    \/ Percentiles
    \/ Imshow
    \/ ListBucket

SpecAccess == AccessInit /\ [][AccessNext]_vars

(* The cell c_uri = c_uri[0] executed once more, right after itself, as a  *)
(* user of the notebook may do.                                            *)
FirstUriAgain ==
    /\ at = "first"
    /\ HasFirst(c_uri)
    /\ c_uri' = First(c_uri)
    /\ UNCHANGED <<at, uris, opened, hdulist, sci, limits, shown, raised>>
    /\ UNCHANGED <<image, transient>>

RerunNext == AccessNext \/ FirstUriAgain

(* The notebook with cells executed again out of document order. *)
SpecRerun == AccessInit /\ [][RerunNext]_vars

(***************************************************************************)
(* Claims about the data-access notebook.                                  *)
(***************************************************************************)

(* C15: run in document order, fits.open receives c_uri as one string, the *)
(* first element of the list get_cloud_uris returned, and never the list.  *)
C15_OpenReceivesFirstUri ==
    opened # Unbound =>
        /\ opened.kind = "str"
        /\ Len(uris) > 0
        /\ opened.val = uris[1]

(* fits.open has been called after get_cloud_uris returned two URIs, the   *)
(* second one different from the first.                                    *)
C15_Witness ==
    /\ opened # Unbound
    /\ Len(uris) = 2
    /\ uris[1] # uris[2]

(* The statements inside the with block, and the ones of the plot cell. *)
InsideWith == {"open", "info", "data"}

AfterPlotCell == {"limits", "shown", "listed"}

FileOpen == hdulist # Unbound /\ hdulist.file = "open"

FileClosed == hdulist # Unbound /\ hdulist.file = "closed"

(* C16: the cloud file is open only while data is extracted: sci is        *)
(* assigned while the file is open inside the with block, the file is      *)
(* closed once the block is left, normally or by an exception, and the     *)
(* percentiles and plt.imshow run only when the file is closed.            *)
C16_FileOpenOnlyWhileExtracting ==
    /\ [](FileOpen <=> at \in InsideWith)
    /\ [](at \in AfterPlotCell => FileClosed)
    /\ []((at = "stopped" /\ hdulist # Unbound) => FileClosed)
    /\ [][sci' # sci => FileOpen /\ at = "info" /\ at' = "data"]_vars
    /\ [][(limits' # limits \/ shown' # shown) => FileClosed /\ sci # Unbound]_vars

(* The image of the array read inside the with block has been shown. *)
C16_Witness ==
    /\ at = "shown"
    /\ shown = sci
    /\ sci # Unbound
    /\ FileClosed

TruePixels(mask) == {p \in DOMAIN mask : mask[p]}

(* C23: with cutout size 9 the target mask has exactly one True pixel, at  *)
(* index (4, 4), the floor of size / 2 in both directions; and after the   *)
(* manual edits of the background mask that pixel is False in it, so that  *)
(* no pixel is True in both masks.                                         *)
C23_MasksAreDisjoint ==
    /\ cell > 21 =>
        /\ TruePixels(target_mask) = {<<4, 4>>}
        /\ 2 * 4 <= size /\ size < 2 * (4 + 1)
    /\ cell > 23 =>
        /\ ~background_mask[<<4, 4>>]
        /\ TruePixels(target_mask) \cap TruePixels(background_mask) = {}

(* The edits are done on a background mask in which no pixel was above the *)
(* threshold: all pixels but the three edited ones are background, and the *)
(* target pixel was background before the edits.                           *)
C23_Witness ==
    /\ cell > 23
    /\ Cardinality(TruePixels(background_mask)) = 9 * 9 - 3
    /\ Cardinality(TruePixels(target_mask)) = 1

====
